---- MODULE Spec2Model ----
(***************************************************************************)
(* Chunked compression store of compressed-image: a channel owning a       *)
(* super-chunk of independently compressed chunks, the single-pass chunk   *)
(* iterator (decompress, yield a mutable view, write back), the chunk_span *)
(* coordinate helpers, the scanline alignment of the chunk size and the    *)
(* lazy super-chunk constructor behind channel::full / channel::zeros.     *)
(***************************************************************************)
EXTENDS Integers, Sequences, FiniteSets, TLC

(* ------------------------------ bounds --------------------------------- *)
\* largest element value; elements of T are drawn from 0..MaxVal
MaxVal == 1
\* largest channel width of the iterator specification
MaxWidth == 2
\* largest channel height of the iterator specification
MaxHeight == 3
\* requested chunk sizes are sizeof(T) * (1..MaxReqElems)
MaxReqElems == 2
\* how far past num_chunks() the model lets operator++ push the index
MaxOverrun == 1
\* number of lazy chunks the allocator holds before push_back throws bad_alloc
MaxAlloc == 6
\* lazy super-chunk members: chunks of the super-chunk, elements of a full chunk
MaxLazyChunks == 2
MaxLazyElems == 2
\* largest chunk index and width handed to chunk_span
MaxSpanIndex == 2
MaxSpanWidth == 3
\* largest width, height and requested chunk size (in elements) of the
\* constructor specification
MaxCtorWidth == 3
MaxCtorHeight == 3
MaxCtorReqElems == 4
\* image: extent of the image and of its channels, distinct channel contents,
\* channels given to a constructor, channels an image grows to
MaxImgWidth == 2
MaxImgHeight == 1
MaxChanId == 2
MaxCtorChannels == 2
MaxChannels == 2
\* bulk read: channels of the source and names in one request
MaxSourceChannels == 4
MaxRequested == 3
\* largest compression level requested
MaxLevel == 260
\* largest number of chunks of a super-chunk asked for a chunk by index
MaxNumChunks == 3
\* bulk read: extent of the source, its channels, requested chunk size in
\* elements
MaxReadWidth == 2
MaxReadHeight == 4
MaxReadChannels == 2
MaxReadReqElems == 4
\* zip: ranges zipped, their lengths, values written
MaxZipRanges == 2
MaxZipLen == 3
MaxZipVal == 1
\* codec contexts: chunks of the channel, pairs of contexts ever created
MaxCtxChunks == 3
MaxContexts == 3

(* --------------------------- program constants ------------------------- *)
s_default_chunksize == 4194304
INT32_MAX == 2147483647

Vals == 0..MaxVal
TypeSizes == {1, 2}
AllTypeSizes == {1, 2, 4, 8}

NoChunk == [nbytes |-> 0, runs |-> <<>>]

Min(a, b) == IF a < b THEN a ELSE b

Rep(v, n) == [i \in 1..n |-> v]

\* every list of at most n elements of S
SeqsUpTo(S, n) == UNION {[1..k -> S] : k \in 0..n}

RECURSIVE Flatten(_)
Flatten(ss) == IF ss = <<>> THEN <<>> ELSE Head(ss) \o Flatten(Tail(ss))

(* ------------------------------- codec --------------------------------- *)
\* The block compressor is lossless and its chunks are self-describing: the
\* header carries the uncompressed byte count.  The payload is modelled as a
\* run-length encoding of the elements.
RunEnd(s, i) ==
    CHOOSE j \in i..Len(s) :
        /\ \A k \in i..j : s[k] = s[i]
        /\ (j = Len(s) \/ s[j + 1] # s[i])

RECURSIVE RunsFrom(_, _)
RunsFrom(s, i) ==
    IF i > Len(s) THEN <<>>
    ELSE LET j == RunEnd(s, i)
         IN << <<s[i], j - i + 1>> >> \o RunsFrom(s, j + 1)

RunLengthEncode(s) == RunsFrom(s, 1)

RECURSIVE RunLengthDecode(_)
RunLengthDecode(r) ==
    IF r = <<>> THEN <<>>
    ELSE Rep(r[1][1], r[1][2]) \o RunLengthDecode(Tail(r))

\* compress handing the codec data.size() bytes instead of
\* data.size() * sizeof(T)
compress_bug(data, sz) ==
    [nbytes |-> Len(data), runs |-> RunLengthEncode(SubSeq(data, 1, Len(data) \div sz))]

\* blosc2::compress: the chunk produced from `data` of element size sz
compress(data, sz) == [nbytes |-> Len(data) * sz, runs |-> RunLengthEncode(data)]

\* blosc2::decompress into a destination of destBytes bytes: the codec
\* returns a negative status when the destination is too small
decompress_ok(chunk, destBytes) == chunk.nbytes <= destBytes
decompress(chunk) == RunLengthDecode(chunk.runs)

(* ------------------------- scanline alignment -------------------------- *)
\* util::align_chunk_to_scanlines_bytes<T>(width, chunk_size): the smallest
\* whole number of scanlines holding chunk_size bytes, kept within the
\* codec's 2^31 - 1 byte limit
align_chunk_to_scanlines_bytes(width, chunk_size, sz) ==
    LET scanline == width * sz
        n == (chunk_size \div scanline) + (IF chunk_size % scanline = 0 THEN 0 ELSE 1)
        cap == INT32_MAX \div scanline
    IN IF n > cap THEN cap * scanline ELSE n * scanline

(* ------------------------- eager super-chunk --------------------------- *)
RECURSIVE SplitChunks(_, _)
SplitChunks(data, elems) ==
    IF data = <<>> THEN <<>>
    ELSE IF Len(data) <= elems THEN <<data>>
    ELSE <<SubSeq(data, 1, elems)>> \o SplitChunks(SubSeq(data, elems + 1, Len(data)), elems)

\* blosc2::schunk<T>(data, block_size, chunk_size, ctx): compress the data
\* chunk by chunk, every chunk but the last holding chunk_size / sizeof(T)
\* elements
schunk_from_data(data, chunk_size, sz) ==
    LET parts == SplitChunks(data, chunk_size \div sz)
    IN [i \in 1..Len(parts) |-> compress(parts[i], sz)]

\* blosc2::schunk<T>(block_size, chunk_size): no chunks
schunk_empty == <<>>

\* schunk::to_uncompressed: decompress every chunk in order
to_uncompressed(chunks) == Flatten([i \in 1..Len(chunks) |-> decompress(chunks[i])])

\* schunk::size(): total number of elements
RECURSIVE SumBytes(_)
SumBytes(chunks) == IF chunks = <<>> THEN 0 ELSE Head(chunks).nbytes + SumBytes(Tail(chunks))
schunk_size(chunks, sz) == SumBytes(chunks) \div sz

(* ------------------------------- state --------------------------------- *)
VARIABLES
    \* channel<T>
    typeSize,                           \* sizeof(T)
    m_Width, m_Height,
    m_Schunk,                           \* the chunks of the super-chunk, in order
    schunk_chunksize,                   \* chunk size of the super-chunk in bytes
    \* channel_iterator<T>
    itState,                            \* "none" | "live" | "terminated"
    m_ChunkIndex,
    m_Initialized,
    m_DecompressionBuffer,              \* the fitted elements of the buffer
    m_DecompressionBufferSize,          \* fitted size in bytes
    m_DecompressionBufferWasRefitted,
    m_CompressionBuffer,                \* the chunk last compressed
    err,                                \* exception thrown by the last operation
    \* what a caller has done with the live iterator
    obs,
    \* channel::full -> lazy_schunk constructor
    lazy,
    \* arguments and results of the pure helpers
    pure,
    \* image<T>: m_Channels, m_ChannelNames, m_Width, m_Height
    image,
    \* image::read_contiguous_oiio_channels: the scanline loop
    reader,
    \* ranges::zip and its iterator
    zip,
    \* the codec contexts of a channel and the pointers an iterator borrowed
    ctx

chanVars == <<typeSize, m_Width, m_Height, m_Schunk, schunk_chunksize>>
iterVars == <<itState, m_ChunkIndex, m_Initialized, m_DecompressionBuffer,
              m_DecompressionBufferSize, m_DecompressionBufferWasRefitted,
              m_CompressionBuffer, err>>
extVars == <<image, reader, zip, ctx>>
vars == <<chanVars, iterVars, obs, lazy, pure, extVars>>

NoK == -1
BadK == -2

NoObs == [orig |-> <<>>, canon |-> FALSE, seen |-> 0, kAll |-> NoK, changed |-> FALSE,
          mutated |-> FALSE, wroteBack |-> FALSE, done |-> FALSE, endIndex |-> 0,
          loaded |-> NoK, visited |-> <<>>]
NoLazy == [pc |-> "idle"]
NoPure == [op |-> "none"]
NoImage == [pc |-> "none"]
NoReader == [pc |-> "none"]
NoZip == [pc |-> "none"]
NoCtx == [pc |-> "none"]

\* the parts of the state a specification does not use
IdleExt == image = NoImage /\ reader = NoReader /\ zip = NoZip /\ ctx = NoCtx

(* ------------------------------ channel -------------------------------- *)
\* the constructor aligning the chunk size to the whole image instead of to
\* one scanline
channel_from_data_bug(data, width, height, chunk_size, sz) ==
    IF Len(data) # width * height
    THEN [ok |-> FALSE]
    ELSE LET chunk_size_aligned ==
                 align_chunk_to_scanlines_bytes(width * height, chunk_size, sz)
         IN [ok |-> TRUE, width |-> width, height |-> height,
             chunk_size |-> chunk_size_aligned,
             schunk |-> schunk_from_data(data, chunk_size_aligned, sz)]

\* channel<T>::channel(std::span<const T> data, width, height, codec, level,
\* block_size, chunk_size): throws when the data length is not width*height,
\* else compresses the data into a super-chunk of scanline-aligned chunks
channel_from_data(data, width, height, chunk_size, sz) ==
    IF Len(data) # width * height
    THEN [ok |-> FALSE]
    ELSE LET chunk_size_aligned == align_chunk_to_scanlines_bytes(width, chunk_size, sz)
         IN [ok |-> TRUE, width |-> width, height |-> height,
             chunk_size |-> chunk_size_aligned,
             schunk |-> schunk_from_data(data, chunk_size_aligned, sz)]

\* channel::num_chunks()
num_chunks == Len(m_Schunk)

\* channel::get_decompressed()
get_decompressed == to_uncompressed(m_Schunk)

\* number of elements chunk i (0-based) decompresses to
chunk_elems(i) == m_Schunk[i + 1].nbytes \div typeSize

(* --------------------------- chunk iterator ---------------------------- *)
\* blosc2::min_decompressed_size<ChunkSize>() of channel_iterator<T>, whose
\* ChunkSize is the default template argument
min_decompressed_size == s_default_chunksize

\* channel_iterator::valid(): the index is below nchunks and the fitted
\* size does not exceed the capacity of the buffer
valid(bufSize) == m_ChunkIndex < num_chunks /\ bufSize <= min_decompressed_size

\* blosc2_schunk_update_chunk as called by channel_iterator::update_chunk:
\* the super-chunk refuses an index it does not hold, a chunk larger than its
\* chunk size, and a smaller chunk anywhere but in the last slot
update_chunk_ok(chunks, index, chunk) ==
    /\ index >= 0
    /\ index < Len(chunks)
    /\ chunk.nbytes <= chunks[1].nbytes
    /\ (chunk.nbytes = chunks[1].nbytes \/ index = Len(chunks) - 1)

update_chunk(chunks, index, chunk) == [chunks EXCEPT ![index + 1] = chunk]

\* operator*() writing the previous buffer back to the current slot
deref_writeback_index_bug == m_ChunkIndex

\* the slot operator*() writes the previous buffer back to
deref_writeback_index == m_ChunkIndex - 1

\* the slot the destructor writes the buffer back to
drop_chunk_idx == IF m_ChunkIndex = num_chunks THEN m_ChunkIndex - 1 ELSE m_ChunkIndex

IsConst(s) == \A i \in 1..Len(s) : s[i] = s[1]

\* the constant every buffer left behind so far was filled with
LeaveBuffer(k, buf) ==
    IF buf # <<>> /\ IsConst(buf) /\ k \in {NoK, buf[1]} THEN buf[1] ELSE BadK

\* the view holding the whole buffer instead of its fitted part
item_span_bug(decompressed_size) ==
    [chunk_index |-> m_ChunkIndex, size |-> min_decompressed_size \div typeSize]

\* the chunk_span operator*() returns over the fitted buffer: its chunk
\* index and its number of elements
item_span(decompressed_size) ==
    [chunk_index |-> m_ChunkIndex, size |-> decompressed_size \div typeSize]

\* channel::begin(): a fresh iterator at chunk 0
Begin ==
    /\ itState = "none"
    /\ itState' = "live"
    /\ m_ChunkIndex' = 0
    /\ m_Initialized' = FALSE
    /\ m_DecompressionBuffer' = <<>>
    /\ m_DecompressionBufferSize' = 0
    /\ m_DecompressionBufferWasRefitted' = FALSE
    /\ m_CompressionBuffer' = NoChunk
    /\ err' = "none"
    /\ obs' = [NoObs EXCEPT !.orig = get_decompressed, !.canon = TRUE]
    /\ UNCHANGED <<chanVars, lazy, pure, extVars>>

\* channel_iterator::operator*()
Deref ==
    /\ itState = "live"
    /\ m_Initialized' = TRUE
    /\ LET size0 == IF m_Initialized THEN m_DecompressionBufferSize ELSE min_decompressed_size
           wb == m_DecompressionBufferWasRefitted /\ m_ChunkIndex # 0
           cbuf == IF wb THEN compress(m_DecompressionBuffer, typeSize) ELSE m_CompressionBuffer
           wbOK == ~wb \/ update_chunk_ok(m_Schunk, deref_writeback_index, cbuf)
           sch1 == IF wb /\ wbOK THEN update_chunk(m_Schunk, deref_writeback_index, cbuf) ELSE m_Schunk
       IN IF ~valid(size0)
          THEN /\ err' = "invalid_iterator"
               /\ m_DecompressionBufferSize' = size0
               /\ obs' = [obs EXCEPT !.canon = FALSE, !.visited = <<>>]
               /\ UNCHANGED <<m_Schunk, m_DecompressionBuffer, m_DecompressionBufferWasRefitted,
                              m_CompressionBuffer>>
          ELSE IF ~wbOK
          THEN /\ err' = "update_failed"
               /\ m_DecompressionBufferSize' = size0
               /\ m_CompressionBuffer' = cbuf
               /\ obs' = [obs EXCEPT !.canon = FALSE, !.visited = <<>>]
               /\ UNCHANGED <<m_Schunk, m_DecompressionBuffer, m_DecompressionBufferWasRefitted>>
          ELSE IF ~decompress_ok(sch1[m_ChunkIndex + 1], size0)
          THEN /\ err' = "decompress_failed"
               /\ m_DecompressionBufferSize' = size0
               /\ m_CompressionBuffer' = cbuf
               /\ m_Schunk' = sch1
               /\ obs' = [obs EXCEPT !.canon = FALSE, !.wroteBack = @ \/ wb, !.visited = <<>>]
               /\ UNCHANGED <<m_DecompressionBuffer, m_DecompressionBufferWasRefitted>>
          ELSE /\ err' = "none"
               /\ m_CompressionBuffer' = cbuf
               /\ m_Schunk' = sch1
               /\ m_DecompressionBuffer' = decompress(sch1[m_ChunkIndex + 1])
               /\ m_DecompressionBufferSize' = sch1[m_ChunkIndex + 1].nbytes
               /\ m_DecompressionBufferWasRefitted' = TRUE
               /\ obs' = [obs EXCEPT !.canon = @ /\ obs.seen = 0,
                                     !.seen = Min(obs.seen + 1, 2),
                                     !.kAll = IF m_DecompressionBufferWasRefitted
                                              THEN LeaveBuffer(@, m_DecompressionBuffer) ELSE @,
                                     !.wroteBack = @ \/ wb,
                                     !.loaded = m_ChunkIndex,
                                     !.visited = IF obs.canon /\ obs.seen = 0
                                                 THEN Append(@, item_span(sch1[m_ChunkIndex + 1].nbytes))
                                                 ELSE <<>>]
    /\ UNCHANGED <<typeSize, m_Width, m_Height, schunk_chunksize, itState, m_ChunkIndex, lazy, pure, extVars>>

\* a write of v through the yielded chunk_span at local index pos
Mutate(pos, v) ==
    /\ itState = "live"
    /\ m_DecompressionBufferWasRefitted
    /\ pos \in 1..Len(m_DecompressionBuffer)
    /\ m_DecompressionBuffer' = [m_DecompressionBuffer EXCEPT ![pos] = v]
    /\ obs' = [obs EXCEPT !.mutated = TRUE,
                          !.changed = @ \/ m_DecompressionBuffer[pos] # v]
    /\ UNCHANGED <<chanVars, itState, m_ChunkIndex, m_Initialized, m_DecompressionBufferSize,
                   m_DecompressionBufferWasRefitted, m_CompressionBuffer, err, lazy, pure, extVars>>

\* channel_iterator::operator++()
Advance ==
    /\ itState = "live"
    /\ m_ChunkIndex < num_chunks + MaxOverrun
    /\ m_ChunkIndex' = m_ChunkIndex + 1
    /\ err' = IF m_ChunkIndex + 1 > num_chunks THEN "out_of_range" ELSE "none"
    /\ obs' = [obs EXCEPT
                 !.canon = @ /\ obs.seen = 1 /\ m_ChunkIndex + 1 <= num_chunks,
                 !.seen = 0,
                 !.visited = IF obs.canon /\ obs.seen = 1 /\ m_ChunkIndex + 1 <= num_chunks
                             THEN @ ELSE <<>>]
    /\ UNCHANGED <<chanVars, itState, m_Initialized, m_DecompressionBuffer,
                   m_DecompressionBufferSize, m_DecompressionBufferWasRefitted,
                   m_CompressionBuffer, lazy, pure, extVars>>

\* channel_iterator::~channel_iterator(); an exception leaving the
\* destructor terminates the program
Drop ==
    /\ itState = "live"
    /\ LET cbuf == compress(m_DecompressionBuffer, typeSize)
           chunk_idx == drop_chunk_idx
       IN IF ~m_DecompressionBufferWasRefitted
          THEN /\ itState' = "none"
               /\ obs' = [obs EXCEPT !.done = TRUE, !.endIndex = m_ChunkIndex, !.canon = FALSE,
                                     !.visited = <<>>]
               /\ UNCHANGED m_Schunk
          ELSE IF update_chunk_ok(m_Schunk, chunk_idx, cbuf)
          THEN /\ itState' = "none"
               /\ m_Schunk' = update_chunk(m_Schunk, chunk_idx, cbuf)
               /\ obs' = [obs EXCEPT !.done = TRUE, !.endIndex = m_ChunkIndex, !.wroteBack = TRUE,
                                     !.canon = @ /\ obs.seen = 0,
                                     !.kAll = LeaveBuffer(@, m_DecompressionBuffer),
                                     !.visited = IF obs.canon /\ obs.seen = 0 THEN @ ELSE <<>>]
          ELSE /\ itState' = "terminated"
               /\ obs' = [obs EXCEPT !.done = TRUE, !.endIndex = m_ChunkIndex, !.canon = FALSE,
                                     !.visited = <<>>]
               /\ UNCHANGED m_Schunk
    /\ m_ChunkIndex' = 0
    /\ m_Initialized' = FALSE
    /\ m_DecompressionBuffer' = <<>>
    /\ m_DecompressionBufferSize' = 0
    /\ m_DecompressionBufferWasRefitted' = FALSE
    /\ m_CompressionBuffer' = NoChunk
    /\ err' = "none"
    /\ UNCHANGED <<typeSize, m_Width, m_Height, schunk_chunksize, lazy, pure, extVars>>

(* ----------------------- iterator specification ------------------------ *)
Init ==
    /\ typeSize \in TypeSizes
    /\ m_Width \in 1..MaxWidth
    /\ m_Height \in 1..MaxHeight
    /\ \E e \in 1..MaxReqElems : \E data \in [1..(m_Width * m_Height) -> Vals] :
          LET c == channel_from_data(data, m_Width, m_Height, e * typeSize, typeSize)
          IN /\ c.ok
             /\ m_Schunk = c.schunk
             /\ schunk_chunksize = c.chunk_size
    /\ itState = "none"
    /\ m_ChunkIndex = 0
    /\ m_Initialized = FALSE
    /\ m_DecompressionBuffer = <<>>
    /\ m_DecompressionBufferSize = 0
    /\ m_DecompressionBufferWasRefitted = FALSE
    /\ m_CompressionBuffer = NoChunk
    /\ err = "none"
    /\ obs = NoObs
    /\ lazy = NoLazy
    /\ pure = NoPure
    /\ IdleExt

Next ==
    \/ Begin
    \/ Deref
    \/ \E pos \in 1..(MaxWidth * MaxReqElems) : \E v \in Vals : Mutate(pos, v)
    \/ Advance
    \/ Drop

Spec == Init /\ [][Next]_vars

(* --------------------------- chunk_span -------------------------------- *)
\* chunk_span<T, ChunkSize>::get_global_index with ChunkSize the default
\* template argument handed down by channel_iterator<T>
get_global_index(chunk_index, index) ==
    LET base_offset == chunk_index * s_default_chunksize
    IN base_offset + index

\* chunk_span::x / chunk_span::y
chunk_span_x(chunk_index, index, width) == get_global_index(chunk_index, index) % width
chunk_span_y(chunk_index, index, width) == get_global_index(chunk_index, index) \div width

(* ------------------- constructor / helper specification ---------------- *)
IdleChannel ==
    /\ typeSize = 1
    /\ m_Width = 1
    /\ m_Height = 1
    /\ m_Schunk = <<>>
    /\ schunk_chunksize = 0
    /\ itState = "none"
    /\ m_ChunkIndex = 0
    /\ m_Initialized = FALSE
    /\ m_DecompressionBuffer = <<>>
    /\ m_DecompressionBufferSize = 0
    /\ m_DecompressionBufferWasRefitted = FALSE
    /\ m_CompressionBuffer = NoChunk
    /\ err = "none"
    /\ obs = NoObs

\* largest multiple of sz below INT32_MAX: the largest chunk size a caller
\* may request
LargestRequest(sz) == (INT32_MAX - 1) - ((INT32_MAX - 1) % sz)

\* the arguments of the constructor calls explored: every small buffer, the
\* 64x16 image of the zip test, and requests next to the codec limit
CtorArgs ==
    [sz : AllTypeSizes, width : 1..MaxCtorWidth, height : 1..MaxCtorHeight,
     req : 1..MaxCtorReqElems, kind : {"all"}]
    \cup [sz : AllTypeSizes, width : {64}, height : {16}, req : {192, 768, 769},
          kind : {"const"}]
    \cup [sz : AllTypeSizes, width : 1..MaxCtorWidth, height : {1, 2}, req : {0},
          kind : {"all"}]

CtorRequest(a) == IF a.req = 0 THEN LargestRequest(a.sz)
                  ELSE IF a.kind = "all" THEN a.req * a.sz ELSE a.req

CtorData(a) ==
    IF a.kind = "const" THEN {Rep(MaxVal, a.width * a.height)}
    ELSE IF a.width * a.height <= 4 THEN [1..(a.width * a.height) -> Vals]
    ELSE {Rep(MaxVal, a.width * a.height), [i \in 1..(a.width * a.height) |-> i % (MaxVal + 1)]}

\* buffers whose length is not width*height
CtorBadData(a) ==
    IF a.kind = "all" /\ a.req # 0
    THEN {Rep(0, n) : n \in (0..(a.width * a.height + 1)) \ {a.width * a.height}}
    ELSE {}

\* construct a channel from data and read it back; the constructor throws
\* on a buffer of the wrong length
Construct ==
    \E a \in CtorArgs : \E data \in CtorData(a) \cup CtorBadData(a) :
        LET c == channel_from_data(data, a.width, a.height, CtorRequest(a), a.sz)
        IN /\ pure.op = "none"
           /\ pure' = IF c.ok
                       THEN [op |-> "channel", sz |-> a.sz, width |-> a.width, height |-> a.height,
                             req |-> CtorRequest(a), data |-> data,
                             chunk_size |-> c.chunk_size,
                             num_chunks |-> Len(c.schunk),
                             size |-> schunk_size(c.schunk, a.sz),
                             out |-> to_uncompressed(c.schunk)]
                       ELSE [op |-> "channel_throw", sz |-> a.sz, width |-> a.width,
                             height |-> a.height, data |-> data]
           /\ UNCHANGED <<chanVars, iterVars, obs, lazy, extVars>>

\* channel<T>::channel(blosc2::schunk_var<T> schunk, width, height, codec,
\* level) given an eager super-chunk of the wrong extent
channel_from_schunk_bug(schunk, width, height, sz) ==
    IF schunk_size(schunk, sz) > width * height
    THEN [ok |-> FALSE]
    ELSE [ok |-> TRUE, width |-> width, height |-> height, schunk |-> schunk]

\* channel<T>::channel(blosc2::schunk_var<T> schunk, width, height, codec,
\* level): throws std::invalid_argument when the super-chunk does not hold
\* width*height elements, else takes the super-chunk over
channel_from_schunk(schunk, width, height, sz) ==
    IF schunk_size(schunk, sz) # width * height
    THEN [ok |-> FALSE]
    ELSE [ok |-> TRUE, width |-> width, height |-> height, schunk |-> schunk]

\* construct a channel from an eager super-chunk of n elements
ConstructFromSchunk ==
    \E sz \in AllTypeSizes : \E width \in 1..MaxCtorWidth : \E height \in 1..MaxCtorHeight :
    \E n \in 0..(MaxCtorWidth * MaxCtorHeight) : \E e \in 1..MaxCtorReqElems :
        LET data == [i \in 1..n |-> i % (MaxVal + 1)]
            schunk == IF n = 0 THEN schunk_empty ELSE schunk_from_data(data, e * sz, sz)
            c == channel_from_schunk(schunk, width, height, sz)
        IN /\ pure.op = "none"
           /\ pure' = IF c.ok
                       THEN [op |-> "from_schunk", sz |-> sz, width |-> width, height |-> height,
                             given |-> n, size |-> schunk_size(c.schunk, sz),
                             out |-> to_uncompressed(c.schunk), data |-> data]
                       ELSE [op |-> "from_schunk_throw", sz |-> sz, width |-> width,
                             height |-> height, given |-> n]
           /\ UNCHANGED <<chanVars, iterVars, obs, lazy, extVars>>

\* construct a super-chunk without data and read it back
ConstructEmpty ==
    /\ pure.op = "none"
    /\ pure' = [op |-> "empty", num_chunks |-> Len(schunk_empty),
                out |-> to_uncompressed(schunk_empty)]
    /\ UNCHANGED <<chanVars, iterVars, obs, lazy, extVars>>

\* ask the view yielded at chunk chunk_index for the coordinates of a local
\* index
ViewCoordinates ==
    \E sz \in AllTypeSizes : \E width \in 1..MaxSpanWidth : \E lines \in 1..2 :
    \E chunk_index \in 0..MaxSpanIndex : \E index \in 0..(width * lines - 1) :
        /\ pure.op = "none"
        /\ pure' = [op |-> "span", sz |-> sz, width |-> width,
                    chunk_size |-> align_chunk_to_scanlines_bytes(width, width * lines * sz, sz),
                    chunk_index |-> chunk_index, index |-> index,
                    x |-> chunk_span_x(chunk_index, index, width),
                    y |-> chunk_span_y(chunk_index, index, width)]
        /\ UNCHANGED <<chanVars, iterVars, obs, lazy, extVars>>

\* the constructor keeping whatever names it is given
ctor_channel_names_bug(channel_names, nchannels) == channel_names

\* image::image(...): a non-empty name list of the wrong length is dropped
ctor_channel_names(channel_names, nchannels) ==
    IF Len(channel_names) # nchannels /\ Len(channel_names) # 0 THEN <<>> ELSE channel_names

\* the channel names of the scanline source, in its native order, and a name
\* no source has
SourceNames == <<"R", "G", "B", "A", "Z", "U", "V">>
UnknownName == "none"

\* std::sort on a vector of int
RECURSIVE insert_sorted(_, _)
insert_sorted(s, v) ==
    IF s = <<>> THEN <<v>>
    ELSE IF v < Head(s) THEN <<v>> \o s
    ELSE <<Head(s)>> \o insert_sorted(Tail(s), v)

RECURSIVE sort(_)
sort(s) == IF s = <<>> THEN <<>> ELSE insert_sorted(sort(Tail(s)), Head(s))

\* map_name_to_index.at(channelname): -1 standing for std::out_of_range
map_name_to_index(spec_channelnames, channelname) ==
    IF \E i \in 1..Len(spec_channelnames) : spec_channelnames[i] = channelname
    THEN (CHOOSE i \in 1..Len(spec_channelnames) : spec_channelnames[i] = channelname) - 1
    ELSE -1

\* the loop of get_contiguous_channels from position i (1-based) on
RECURSIVE contiguous_from(_, _, _, _, _)
contiguous_from(indices, i, range_start, previous, result) ==
    IF i > Len(indices)
    THEN Append(result, <<range_start, previous + 1>>)
    ELSE IF indices[i] # previous + 1
    THEN contiguous_from(indices, i + 1, indices[i], indices[i],
                         Append(result, <<range_start, previous + 1>>))
    ELSE contiguous_from(indices, i + 1, range_start, indices[i], result)

\* get_contiguous_channels without the sort
get_contiguous_channels_bug(spec_channelnames, channelnames) ==
    LET indices == [i \in 1..Len(channelnames) |->
                       map_name_to_index(spec_channelnames, channelnames[i])]
    IN IF \E i \in 1..Len(indices) : indices[i] < 0 THEN [ok |-> FALSE]
       ELSE IF indices = <<>> THEN [ok |-> TRUE, result |-> <<>>]
       ELSE [ok |-> TRUE,
             result |-> contiguous_from(indices, 2, indices[1], indices[1], <<>>)]

\* detail::get_contiguous_channels(input_ptr, channelnames): the indices of
\* the names, sorted, cut into begin-end pairs; an unknown name throws
get_contiguous_channels(spec_channelnames, channelnames) ==
    LET indices == sort([i \in 1..Len(channelnames) |->
                            map_name_to_index(spec_channelnames, channelnames[i])])
    IN IF \E i \in 1..Len(indices) : indices[i] < 0 THEN [ok |-> FALSE]
       ELSE IF indices = <<>> THEN [ok |-> TRUE, result |-> <<>>]
       ELSE [ok |-> TRUE,
             result |-> contiguous_from(indices, 2, indices[1], indices[1], <<>>)]

\* image::read(input_ptr, channelnames, ...): the source indices of the
\* channels pushed and the names collected, run after run
read_channels(channel_ranges_contiguous) ==
    Flatten([r \in 1..Len(channel_ranges_contiguous) |->
               [j \in 1..(channel_ranges_contiguous[r][2] - channel_ranges_contiguous[r][1]) |->
                   channel_ranges_contiguous[r][1] + j - 1]])

\* image::read with a list of names of the source, in any order, or with a
\* name the source does not have
ReadChannelNames ==
    \E nsrc \in 1..MaxSourceChannels :
    \E channelnames \in SeqsUpTo({SourceNames[i] : i \in 1..nsrc} \cup {UnknownName},
                                 MaxRequested) :
        LET spec_channelnames == SubSeq(SourceNames, 1, nsrc)
            ranges == get_contiguous_channels(spec_channelnames, channelnames)
            channels == read_channels(ranges.result)
            new_channelnames == [i \in 1..Len(channels) |-> spec_channelnames[channels[i] + 1]]
        IN /\ pure.op = "none"
           /\ pure' = IF ranges.ok
                       THEN [op |-> "read", ok |-> TRUE, source |-> spec_channelnames,
                             requested |-> channelnames, ranges |-> ranges.result,
                             channels |-> channels,
                             names |-> ctor_channel_names(new_channelnames, Len(channels))]
                       ELSE [op |-> "read", ok |-> FALSE, source |-> spec_channelnames,
                             requested |-> channelnames]
           /\ UNCHANGED <<chanVars, iterVars, obs, lazy, extVars>>

\* static_cast<uint8_t> and the implicit conversion of an argument to a
\* uint8_t parameter
to_uint8(v) == v % 256

\* util::ensure_compression_level(size_t compression_level)
ensure_compression_level(compression_level) ==
    to_uint8(IF compression_level > 9 THEN 9 ELSE compression_level)

\* channel::channel(..., uint8_t compression_level, ...): m_CompressionLevel
channel_compression_level(compression_level) ==
    ensure_compression_level(to_uint8(compression_level))

\* image::image(..., size_t compression_level, ...): the level of every
\* channel it builds
image_compression_level(compression_level) ==
    LET comp_level_adjusted == ensure_compression_level(compression_level)
    IN channel_compression_level(comp_level_adjusted)

\* image::add_channel(data, width, height, name, codec, size_t
\* compression_level): the level is handed to the channel constructor as is
add_channel_compression_level(compression_level) ==
    channel_compression_level(compression_level)

\* a channel is built with a requested compression level, directly, by an
\* image constructor or by add_channel
StoreCompressionLevel ==
    \E compression_level \in 0..MaxLevel : \E via \in {"channel", "image", "add_channel"} :
        /\ pure.op = "none"
        /\ via = "channel" => compression_level <= 255
        /\ pure' = [op |-> "level", via |-> via, requested |-> compression_level,
                    compression_level |->
                        IF via = "channel" THEN channel_compression_level(compression_level)
                        ELSE IF via = "image" THEN image_compression_level(compression_level)
                        ELSE add_channel_compression_level(compression_level)]
        /\ UNCHANGED <<chanVars, iterVars, obs, lazy, extVars>>

\* the comparison index > m_Chunks.size() - 1 on size_t: for an empty vector
\* the subtraction wraps to SIZE_MAX, which no index exceeds
index_above_last(index, size) == IF size = 0 THEN FALSE ELSE index > size - 1

\* schunk_mixin::validate_chunk_index(index) on a super-chunk of size chunks,
\* the same test opening lazy_schunk::chunk and lazy_schunk::chunk_size:
\* TRUE when std::out_of_range is thrown
validate_chunk_index(index, size) == index_above_last(index, size)

\* a chunk of a super-chunk holding num_chunks chunks is asked for by index
ValidateChunkIndex ==
    \E size \in 0..MaxNumChunks : \E index \in 0..(MaxNumChunks + 1) :
        /\ pure.op = "none"
        /\ pure' = [op |-> "index", num_chunks |-> size, index |-> index,
                    out_of_range |-> validate_chunk_index(index, size)]
        /\ UNCHANGED <<chanVars, iterVars, obs, lazy, extVars>>

InitPure ==
    /\ IdleChannel
    /\ lazy = NoLazy
    /\ pure = NoPure
    /\ IdleExt

NextPure ==
    \/ Construct
    \/ ConstructFromSchunk
    \/ ConstructEmpty
    \/ ViewCoordinates
    \/ ReadChannelNames
    \/ StoreCompressionLevel
    \/ ValidateChunkIndex

SpecPure == InitPure /\ [][NextPure]_vars

(* --------------------------- lazy super-chunk -------------------------- *)
\* detail::lazy_chunk<T>: a fill value or a compressed chunk, and the
\* number of elements it stands for
LazyFill(v, n) == [is_lazy |-> TRUE, value |-> v, num_elements |-> n]

\* lazy_schunk::size(): the sum of the element counts of all chunks
RECURSIVE lazy_size(_)
lazy_size(chunks) ==
    IF chunks = <<>> THEN 0 ELSE Head(chunks).num_elements + lazy_size(Tail(chunks))

\* lazy_schunk::lazy_chunk_value(): the value of the first lazy chunk, T{}
\* when there is none
lazy_chunk_value(chunks) ==
    IF \E i \in 1..Len(chunks) : chunks[i].is_lazy
    THEN chunks[CHOOSE i \in 1..Len(chunks) :
                   chunks[i].is_lazy /\ \A j \in 1..(i - 1) : ~chunks[j].is_lazy].value
    ELSE 0

\* lazy_schunk::to_uncompressed: a buffer of size() copies of the lazy value
\* into which every compressed chunk is decompressed at its element offset
lazy_to_uncompressed(chunks) ==
    LET fill == lazy_chunk_value(chunks)
        offset(i) == lazy_size(SubSeq(chunks, 1, i - 1))
        owner(p) == CHOOSE i \in 1..Len(chunks) :
                        offset(i) < p /\ p <= offset(i) + chunks[i].num_elements
    IN [p \in 1..lazy_size(chunks) |->
           LET i == owner(p)
           IN IF chunks[i].is_lazy THEN fill
              ELSE LET d == decompress(chunks[i].value)
                   IN IF p - offset(i) <= Len(d) THEN d[p - offset(i)] ELSE fill]

\* lazy_schunk::csize(): a lazy chunk counts as one T, a compressed chunk as
\* its compressed bytes
RECURSIVE lazy_csize(_, _)
lazy_csize(chunks, sz) ==
    IF chunks = <<>> THEN 0
    ELSE (IF Head(chunks).is_lazy THEN sz ELSE Len(Head(chunks).value.runs) * (sz + 1))
         + lazy_csize(Tail(chunks), sz)

\* channel::full(width, height, fill_value, ..., chunk_size) entering
\* lazy_schunk::lazy_schunk(value, num_elements, chunk_size): the loop over
\* the full chunks ranges over std::views::iota(num_full_chunks), which
\* starts at num_full_chunks and has no end
FullCall ==
    \E sz \in TypeSizes : \E width \in 1..MaxWidth : \E height \in 1..MaxHeight :
    \E e \in 1..MaxReqElems : \E fill_value \in Vals :
        LET chunk_size_aligned == align_chunk_to_scanlines_bytes(width, e * sz, sz)
            num_elements == width * height
            num_bytes == num_elements * sz
            num_full_chunks == num_bytes \div chunk_size_aligned
            remainder_bytes == num_bytes - (chunk_size_aligned * num_full_chunks)
        IN /\ lazy.pc = "idle"
           /\ lazy' = [pc |-> "loop", sz |-> sz, width |-> width, height |-> height,
                       value |-> fill_value, m_ChunkSize |-> chunk_size_aligned,
                       num_full_chunks |-> num_full_chunks,
                       remainder_bytes |-> remainder_bytes,
                       idx |-> num_full_chunks, m_Chunks |-> <<>>]
           /\ UNCHANGED <<chanVars, iterVars, obs, pure, extVars>>

\* one iteration of the constructor's loop: push a lazy chunk of
\* m_ChunkSize / sizeof(T) elements and step the unbounded index
CtorLoop ==
    /\ lazy.pc = "loop"
    /\ Len(lazy.m_Chunks) < MaxAlloc
    /\ lazy' = [lazy EXCEPT
                  !.m_Chunks = Append(@, LazyFill(lazy.value, lazy.m_ChunkSize \div lazy.sz)),
                  !.idx = @ + 1]
    /\ UNCHANGED <<chanVars, iterVars, obs, pure, extVars>>

\* push_back runs out of memory: the constructor leaves with std::bad_alloc
\* and no lazy_schunk, hence no channel, exists
CtorBadAlloc ==
    /\ lazy.pc = "loop"
    /\ Len(lazy.m_Chunks) = MaxAlloc
    /\ lazy' = [lazy EXCEPT !.pc = "bad_alloc", !.m_Chunks = <<>>]
    /\ UNCHANGED <<chanVars, iterVars, obs, pure, extVars>>

InitFull ==
    /\ IdleChannel
    /\ lazy = NoLazy
    /\ pure = NoPure
    /\ IdleExt

NextFull == FullCall \/ CtorLoop \/ CtorBadAlloc

SpecFull == InitFull /\ [][NextFull]_vars

(* -------------------------------- image -------------------------------- *)
\* a channel held by an image: its extent and its content
ImageChannels == [width : 1..MaxImgWidth, height : 1..MaxImgHeight, id : 1..MaxChanId]

\* a buffer handed to a data constructor: its length and its content
ImageBuffers(width, height) ==
    [len : {width * height, width * height + 1}, id : 1..MaxChanId]

ChannelNames == {"R", "G"}

\* the sequence s without its element at 0-based index k
erase(s, k) == [i \in 1..(Len(s) - 1) |-> IF i <= k THEN s[i] ELSE s[i + 1]]

\* the image after a constructor returned
NewImage(channels, width, height, channel_names) ==
    [pc |-> "live", m_Channels |-> channels,
     m_ChannelNames |-> ctor_channel_names(channel_names, Len(channels)),
     m_Width |-> width, m_Height |-> height,
     last |-> [op |-> "ctor", ok |-> TRUE, given |-> Len(channel_names)],
     origin |-> channels, streak |-> <<>>]

\* the image after an operation other than extract_channel(0)
AfterOp(img, last) == [img EXCEPT !.last = last, !.origin = <<>>, !.streak = <<>>]

\* image::image(std::vector<std::vector<T>> channels, width, height,
\* channel_names, ...): one channel per buffer; a buffer whose length is not
\* width*height makes the constructor throw
ImageFromData ==
    \E width \in 1..MaxImgWidth : \E height \in 1..MaxImgHeight :
    \E channels \in SeqsUpTo(ImageBuffers(width, height), MaxCtorChannels) :
    \E channel_names \in SeqsUpTo(ChannelNames, MaxCtorChannels + 1) :
        /\ image.pc = "none"
        /\ image' =
             IF \E i \in 1..Len(channels) : channels[i].len # width * height
             THEN [pc |-> "failed"]
             ELSE NewImage([i \in 1..Len(channels) |->
                               [width |-> width, height |-> height, id |-> channels[i].id]],
                           width, height, channel_names)
        /\ UNCHANGED <<chanVars, iterVars, obs, lazy, pure, reader, zip, ctx>>

\* image::image(std::vector<compressed::channel<T>> channels, width, height,
\* channel_names)
ImageFromChannels ==
    \E width \in 1..MaxImgWidth : \E height \in 1..MaxImgHeight :
    \E channels \in SeqsUpTo(ImageChannels, MaxCtorChannels) :
    \E channel_names \in SeqsUpTo(ChannelNames, MaxCtorChannels + 1) :
        /\ image.pc = "none"
        /\ image' = NewImage(channels, width, height, channel_names)
        /\ UNCHANGED <<chanVars, iterVars, obs, lazy, pure, reader, zip, ctx>>

\* image::add_channel(compressed::channel<T> _channel, name): the channel is
\* appended; a name is appended only when the image has names
AddChannel ==
    \E _channel \in ImageChannels : \E name \in ChannelNames \cup {""} :
        /\ image.pc = "live"
        /\ Len(image.m_Channels) < MaxChannels
        /\ image' = AfterOp([image EXCEPT
                               !.m_Channels = Append(@, _channel),
                               !.m_ChannelNames = IF Len(@) > 0 THEN Append(@, name) ELSE @],
                            [op |-> "add_channel", ok |-> TRUE])
        /\ UNCHANGED <<chanVars, iterVars, obs, lazy, pure, reader, zip, ctx>>

\* image::add_channel(std::span<const T> data, width, height, name, ...): the
\* channel is built with the extent given in the call; its constructor
\* throws on a buffer of another length and the image stays as it was
AddChannelData ==
    \E width \in 1..MaxImgWidth : \E height \in 1..MaxImgHeight :
    \E data \in ImageBuffers(width, height) : \E name \in ChannelNames \cup {""} :
        /\ image.pc = "live"
        /\ Len(image.m_Channels) < MaxChannels
        /\ image' =
             IF data.len # width * height
             THEN AfterOp(image, [op |-> "add_channel", ok |-> FALSE])
             ELSE AfterOp([image EXCEPT
                             !.m_Channels = Append(@, [width |-> width, height |-> height,
                                                       id |-> data.id]),
                             !.m_ChannelNames = IF Len(@) > 0 THEN Append(@, name) ELSE @],
                          [op |-> "add_channel", ok |-> TRUE])
        /\ UNCHANGED <<chanVars, iterVars, obs, lazy, pure, reader, zip, ctx>>

\* image::channelnames(std::vector<std::string>): throws when the length is
\* not the number of channels
SetChannelNames ==
    \E _channelnames \in SeqsUpTo(ChannelNames, MaxChannels) :
        /\ image.pc = "live"
        /\ image' =
             IF Len(_channelnames) # Len(image.m_Channels)
             THEN AfterOp(image, [op |-> "channelnames", ok |-> FALSE,
                                  given |-> Len(_channelnames)])
             ELSE AfterOp([image EXCEPT !.m_ChannelNames = _channelnames],
                          [op |-> "channelnames", ok |-> TRUE,
                           given |-> Len(_channelnames)])
        /\ UNCHANGED <<chanVars, iterVars, obs, lazy, pure, reader, zip, ctx>>

\* image::get_channel_offset(channelname): index of the first channel of
\* that name, -1 standing for std::invalid_argument
get_channel_offset(names, channelname) ==
    IF \E i \in 1..Len(names) : names[i] = channelname
    THEN (CHOOSE i \in 1..Len(names) :
              names[i] = channelname /\ \A j \in 1..(i - 1) : names[j] # channelname) - 1
    ELSE -1

\* removing the channel at the next index instead of the one asked for
remove_channel_bug(img, k) ==
    [img EXCEPT !.m_Channels = erase(@, IF k + 1 < Len(@) THEN k + 1 ELSE k),
                !.m_ChannelNames = IF Len(@) > 0 THEN erase(@, k) ELSE @]

\* image::remove_channel(index): the channel at index k and, when names are
\* set, its name are erased
remove_channel(img, k) ==
    [img EXCEPT !.m_Channels = erase(@, k),
                !.m_ChannelNames = IF Len(@) > 0 THEN erase(@, k) ELSE @]

\* the index a selector (an index or a name) stands for, -1 when the image
\* has no such channel
selected_index(img, sel) ==
    IF sel.by = "name" THEN get_channel_offset(img.m_ChannelNames, sel.name)
    ELSE IF sel.index < Len(img.m_Channels) THEN sel.index ELSE -1

\* the selectors tried: every index and every name
Selectors ==
    [by : {"index"}, index : 0..MaxChannels, name : {""}]
    \cup [by : {"name"}, index : {0}, name : ChannelNames]

\* image::remove_channel(index) and image::remove_channel(name)
RemoveChannel ==
    \E sel \in Selectors :
        LET k == selected_index(image, sel)
        IN /\ image.pc = "live"
           /\ image' =
                IF k < 0
                THEN AfterOp(image, [op |-> "remove_channel", ok |-> FALSE])
                ELSE AfterOp(remove_channel(image, k),
                             [op |-> "remove_channel", ok |-> TRUE, k |-> k])
           /\ UNCHANGED <<chanVars, iterVars, obs, lazy, pure, reader, zip, ctx>>

\* image::extract_channel(index) and image::extract_channel(name): as
\* remove_channel, handing the removed channel to the caller
ExtractChannel ==
    \E sel \in Selectors :
        LET k == selected_index(image, sel)
            last == [op |-> "extract_channel", ok |-> TRUE, k |-> k,
                     channel |-> image.m_Channels[k + 1]]
        IN /\ image.pc = "live"
           /\ image' =
                IF k < 0
                THEN AfterOp(image, [op |-> "extract_channel", ok |-> FALSE])
                ELSE IF sel.by = "index" /\ sel.index = 0 /\ image.origin # <<>>
                THEN [remove_channel(image, k) EXCEPT
                         !.last = last, !.streak = Append(@, image.m_Channels[k + 1])]
                ELSE AfterOp(remove_channel(image, k), last)
           /\ UNCHANGED <<chanVars, iterVars, obs, lazy, pure, reader, zip, ctx>>

InitImage ==
    /\ IdleChannel
    /\ lazy = NoLazy
    /\ pure = NoPure
    /\ IdleExt

NextImage ==
    \/ ImageFromData
    \/ ImageFromChannels
    \/ AddChannel
    \/ AddChannelData
    \/ SetChannelNames
    \/ RemoveChannel
    \/ ExtractChannel

SpecImage == InitImage /\ [][NextImage]_vars

(* ------------------------------ bulk read ------------------------------ *)
\* the element of the scanline source at row y, column x, channel ch of an
\* image of the given width with nsrc channels
source_pixel(y, x, ch, width, nsrc) == (y * width + x) * nsrc + ch

\* what a default-initialised buffer may hold before it is written
Indeterminate == {-1, -2}

\* ImageInput::read_scanlines(ybegin, yend, chbegin, chend, data): the rows
\* ybegin..yend-1 of the channels chbegin..chend-1, pixel-interleaved, land
\* at the start of the buffer; the rest of the buffer keeps what it held
read_scanlines(buffer, ybegin, yend, chbegin, chend, width, nsrc) ==
    LET nchannels == chend - chbegin
    IN [i \in 1..Len(buffer) |->
          IF i <= (yend - ybegin) * width * nchannels
          THEN source_pixel(ybegin + ((i - 1) \div (width * nchannels)),
                            ((i - 1) \div nchannels) % width,
                            chbegin + ((i - 1) % nchannels), width, nsrc)
          ELSE buffer[i]]

\* image_algo::deinterleave(interleaved, deinterleaved): channel c takes every
\* nchannels-th element, starting at c
deinterleave(interleaved, nchannels) ==
    [c \in 1..nchannels |->
        [i \in 1..(Len(interleaved) \div nchannels) |-> interleaved[(i - 1) * nchannels + c]]]

\* the band reading scanlines_per_chunk rows whatever is left
scanlines_to_read_bug(scanlines_per_chunk, height, y) == scanlines_per_chunk

\* rows read in one band: scanlines_per_chunk, clamped to what is left
scanlines_to_read(scanlines_per_chunk, height, y) == Min(scanlines_per_chunk, height - y)

\* image::read for one contiguous run [chbegin, chend): the chunk size is
\* aligned to scanlines, the swap buffers are fitted to one chunk and
\* read_contiguous_oiio_channels starts at y = 0 with empty super-chunks
ReadBegin ==
    \E sz \in TypeSizes : \E width \in 1..MaxReadWidth : \E height \in 1..MaxReadHeight :
    \E nsrc \in 1..MaxReadChannels : \E chbegin \in 0..(MaxReadChannels - 1) :
    \E chend \in 1..MaxReadChannels : \E e \in 1..MaxReadReqElems : \E g \in Indeterminate :
        LET chunk_size_aligned == align_chunk_to_scanlines_bytes(width, e * sz, sz)
            nchannels == chend - chbegin
            bytes_per_scanline == width * nchannels * sz
            chunk_size_all == chunk_size_aligned * nchannels
            scanlines_per_chunk == chunk_size_all \div bytes_per_scanline
        IN /\ reader.pc = "none"
           /\ chbegin < chend /\ chend <= nsrc
           /\ reader' = [pc |-> "loop", sz |-> sz, width |-> width, height |-> height,
                         nsrc |-> nsrc, chbegin |-> chbegin, chend |-> chend,
                         chunk_size |-> chunk_size_aligned,
                         scanlines_per_chunk |-> scanlines_per_chunk,
                         interleaved_buffer |-> Rep(g, chunk_size_all \div sz),
                         schunks |-> [c \in 1..nchannels |-> schunk_empty],
                         y |-> 0]
           /\ UNCHANGED <<chanVars, iterVars, obs, lazy, pure, image, zip, ctx>>

\* one pass of the while loop of read_contiguous_oiio_channels: read a band,
\* deinterleave it and append the fitted part to every super-chunk
ReadBand ==
    /\ reader.pc = "loop"
    /\ reader.y < reader.height
    /\ LET n == scanlines_to_read(reader.scanlines_per_chunk, reader.height, reader.y)
           nchannels == reader.chend - reader.chbegin
           interleaved == read_scanlines(reader.interleaved_buffer, reader.y, reader.y + n,
                                         reader.chbegin, reader.chend, reader.width,
                                         reader.nsrc)
           deinterleaved_buffer == deinterleave(interleaved, nchannels)
           read_elements == n * reader.width
       IN reader' = [reader EXCEPT
                       !.interleaved_buffer = interleaved,
                       !.schunks = [c \in 1..nchannels |->
                                       Append(@[c],
                                              compress(SubSeq(deinterleaved_buffer[c], 1,
                                                              read_elements), reader.sz))],
                       !.y = @ + n]
    /\ UNCHANGED <<chanVars, iterVars, obs, lazy, pure, image, zip, ctx>>

\* the loop is left and every super-chunk becomes a channel
ReadEnd ==
    /\ reader.pc = "loop"
    /\ ~(reader.y < reader.height)
    /\ reader' = [reader EXCEPT !.pc = "done"]
    /\ UNCHANGED <<chanVars, iterVars, obs, lazy, pure, image, zip, ctx>>

InitRead ==
    /\ IdleChannel
    /\ lazy = NoLazy
    /\ pure = NoPure
    /\ IdleExt

NextRead == ReadBegin \/ ReadBand \/ ReadEnd

SpecRead == InitRead /\ [][NextRead]_vars

(* --------------------------------- zip --------------------------------- *)
RECURSIVE min_distance(_)
\* std::min over the distances begin()..end() of the ranges
min_distance(lens) ==
    IF Len(lens) = 1 THEN lens[1] ELSE Min(lens[1], min_distance(Tail(lens)))

\* the size taken from the first range alone
size_impl_bug(data_) == Len(data_[1])

\* zip::size_impl: the smallest distance from begin() to end()
size_impl(data_) == min_distance([I \in 1..Len(data_) |-> Len(data_[I])])

\* detail::iterator::advance: every iterator of the tuple moves by offset
advance(it, offset) == [I \in 1..Len(it) |-> it[I] + offset]

\* zip::begin_impl: the begin() of every range
begin_impl(data_) == [I \in 1..Len(data_) |-> 0]

\* zip::end_impl: begin advanced size() times
end_impl(data_) == advance(begin_impl(data_), size_impl(data_))

\* detail::iterator::equal: some pair of iterators compares equal
equal(it, other) == \E I \in 1..Len(it) : it[I] = other[I]

\* zip(args...): the ranges are held by reference; for (auto it = begin();
\* it != end(); ++it) starts
ZipBegin ==
    \E n \in 1..MaxZipRanges : \E lens \in [1..n -> 0..MaxZipLen] :
        LET data_ == [I \in 1..n |-> Rep(0, lens[I])]
        IN /\ zip.pc = "none"
           /\ zip' = [pc |-> "loop", data_ |-> data_, it |-> begin_impl(data_),
                      end |-> end_impl(data_), size |-> size_impl(data_),
                      visited |-> 0, ub |-> FALSE, written |-> {}]
           /\ UNCHANGED <<chanVars, iterVars, obs, lazy, pure, image, reader, ctx>>

\* the loop body assigns through element I of the tuple *it; an iterator
\* past the end of its range refers to no element
ZipWrite ==
    \E I \in 1..MaxZipRanges : \E v \in 1..MaxZipVal :
        /\ zip.pc = "loop"
        /\ ~equal(zip.it, zip.end)
        /\ I <= Len(zip.data_)
        /\ zip' = IF zip.it[I] < Len(zip.data_[I])
                  THEN [zip EXCEPT !.data_[I][zip.it[I] + 1] = v,
                                   !.written = @ \cup {<<I, zip.it[I]>>}]
                  ELSE [zip EXCEPT !.ub = TRUE]
        /\ UNCHANGED <<chanVars, iterVars, obs, lazy, pure, image, reader, ctx>>

\* ++it at the end of the loop body
ZipNext ==
    /\ zip.pc = "loop"
    /\ ~equal(zip.it, zip.end)
    /\ zip' = [zip EXCEPT !.it = advance(@, 1), !.visited = @ + 1]
    /\ UNCHANGED <<chanVars, iterVars, obs, lazy, pure, image, reader, ctx>>

\* it == end(): the loop is left
ZipEnd ==
    /\ zip.pc = "loop"
    /\ equal(zip.it, zip.end)
    /\ zip' = [zip EXCEPT !.pc = "done"]
    /\ UNCHANGED <<chanVars, iterVars, obs, lazy, pure, image, reader, ctx>>

InitZip ==
    /\ IdleChannel
    /\ lazy = NoLazy
    /\ pure = NoPure
    /\ IdleExt

NextZip == ZipBegin \/ ZipWrite \/ ZipNext \/ ZipEnd

SpecZip == InitZip /\ [][NextZip]_vars

(* --------------------------- codec contexts ---------------------------- *)
\* an iterator that does not exist
NoIterator == [live |-> FALSE]

\* channel::channel: the channel creates its compression and decompression
\* context and owns them through context_ptr
CtxConstruct ==
    \E nchunks \in 1..MaxCtxChunks :
        /\ ctx.pc = "none"
        /\ ctx' = [pc |-> "live", nchunks |-> nchunks,
                   m_CompressionContext |-> 1, m_DecompressionContext |-> 2,
                   allocated |-> {1, 2}, created |-> 2,
                   it |-> NoIterator, used_freed |-> FALSE]
        /\ UNCHANGED <<chanVars, iterVars, obs, lazy, pure, image, reader, zip>>

\* channel::begin(): the iterator takes m_CompressionContext.get() and
\* m_DecompressionContext.get()
CtxBegin ==
    /\ ctx.pc = "live"
    /\ ~ctx.it.live
    /\ ctx' = [ctx EXCEPT !.it = [live |-> TRUE,
                                  m_CompressionContext |-> ctx.m_CompressionContext,
                                  m_DecompressionContext |-> ctx.m_DecompressionContext,
                                  m_ChunkIndex |-> 0,
                                  m_DecompressionBufferWasRefitted |-> FALSE]]
    /\ UNCHANGED <<chanVars, iterVars, obs, lazy, pure, image, reader, zip>>

\* channel::update_nthreads(nthreads, block_size): both context_ptr members
\* are assigned fresh contexts, which frees the contexts they held
UpdateNThreads ==
    /\ ctx.pc = "live"
    /\ ctx.created + 2 <= 2 * MaxContexts
    /\ ctx' = [ctx EXCEPT !.m_CompressionContext = ctx.created + 1,
                          !.m_DecompressionContext = ctx.created + 2,
                          !.allocated = {ctx.created + 1, ctx.created + 2},
                          !.created = @ + 2]
    /\ UNCHANGED <<chanVars, iterVars, obs, lazy, pure, image, reader, zip>>

\* the contexts operator*() passes to compress_chunk and decompress_chunk
deref_contexts(it) ==
    (IF it.m_DecompressionBufferWasRefitted /\ it.m_ChunkIndex # 0
     THEN {it.m_CompressionContext} ELSE {})
    \cup {it.m_DecompressionContext}

\* channel_iterator::operator*() on a valid position; a freed context is
\* undefined behaviour: the call may go through or bring the program down
CtxDeref ==
    /\ ctx.pc = "live"
    /\ ctx.it.live
    /\ ctx.it.m_ChunkIndex < ctx.nchunks
    /\ \E outcome \in {"live", "crashed"} :
          /\ outcome = "crashed" => ~(deref_contexts(ctx.it) \subseteq ctx.allocated)
          /\ ctx' = [ctx EXCEPT
                       !.pc = outcome,
                       !.used_freed = @ \/ ~(deref_contexts(ctx.it) \subseteq ctx.allocated),
                       !.it.m_DecompressionBufferWasRefitted = TRUE]
    /\ UNCHANGED <<chanVars, iterVars, obs, lazy, pure, image, reader, zip>>

\* channel_iterator::operator++()
CtxAdvance ==
    /\ ctx.pc = "live"
    /\ ctx.it.live
    /\ ctx.it.m_ChunkIndex < ctx.nchunks
    /\ ctx' = [ctx EXCEPT !.it.m_ChunkIndex = @ + 1]
    /\ UNCHANGED <<chanVars, iterVars, obs, lazy, pure, image, reader, zip>>

\* channel_iterator::~channel_iterator(): a refitted buffer is compressed
\* with the borrowed compression context
CtxDrop ==
    /\ ctx.pc = "live"
    /\ ctx.it.live
    /\ LET freed == /\ ctx.it.m_DecompressionBufferWasRefitted
                    /\ ctx.it.m_CompressionContext \notin ctx.allocated
       IN \E outcome \in {"live", "crashed"} :
             /\ outcome = "crashed" => freed
             /\ ctx' = [ctx EXCEPT !.pc = outcome,
                                   !.used_freed = @ \/ freed,
                                   !.it = NoIterator]
    /\ UNCHANGED <<chanVars, iterVars, obs, lazy, pure, image, reader, zip>>

InitCtx ==
    /\ IdleChannel
    /\ lazy = NoLazy
    /\ pure = NoPure
    /\ IdleExt

NextCtx == CtxConstruct \/ CtxBegin \/ UpdateNThreads \/ CtxDeref \/ CtxAdvance \/ CtxDrop

SpecCtx == InitCtx /\ [][NextCtx]_vars

(* ---------------------- lazy super-chunk: members ---------------------- *)
\* detail::lazy_chunk<T> holding a compressed chunk
LazyCompressed(chunk, n) == [is_lazy |-> FALSE, value |-> chunk, num_elements |-> n]

\* the lazy super-chunks the member functions are applied to, none of their
\* chunks written yet: every chunk but the last stands for m_ChunkSize bytes
\* of one value, the last one for at most that
LazySchunks ==
    {[sz |-> sz, m_ChunkSize |-> e * sz,
      m_Chunks |-> [i \in 1..n |-> LazyFill(v, IF i < n THEN e ELSE Min(r, e))]] :
        sz \in TypeSizes, e \in 1..MaxLazyElems, r \in 1..MaxLazyElems,
        n \in 0..MaxLazyChunks, v \in Vals}

\* lazy_schunk::has_lazy_chunk()
has_lazy_chunk(chunks) == \E i \in 1..Len(chunks) : chunks[i].is_lazy

\* lazy_schunk::chunk_size(index)
lazy_chunk_size(chunks, index) == chunks[index + 1].num_elements

\* lazy_schunk::chunk(decompression_ctx, index): a vector of chunk_size(index)
\* elements, the fill value throughout or zeros the compressed chunk is
\* decompressed into
lazy_schunk_chunk(chunks, index, sz) ==
    IF validate_chunk_index(index, Len(chunks)) THEN [ok |-> FALSE, err |-> "out_of_range"]
    ELSE IF chunks[index + 1].is_lazy
    THEN [ok |-> TRUE,
          out |-> Rep(chunks[index + 1].value, lazy_chunk_size(chunks, index))]
    ELSE IF ~decompress_ok(chunks[index + 1].value, lazy_chunk_size(chunks, index) * sz)
    THEN [ok |-> FALSE, err |-> "decompress_failed"]
    ELSE LET d == decompress(chunks[index + 1].value)
         IN [ok |-> TRUE,
             out |-> [p \in 1..lazy_chunk_size(chunks, index) |->
                         IF p <= Len(d) THEN d[p] ELSE 0]]

\* set_chunk forgetting the number of elements of the slot
set_chunk_bug(chunks, compressed, index) ==
    [chunks EXCEPT ![index + 1] = LazyCompressed(compressed, 0)]

\* lazy_schunk::set_chunk(compressed, index): the value of the slot becomes
\* the compressed chunk
set_chunk(chunks, compressed, index) ==
    [chunks EXCEPT ![index + 1] = LazyCompressed(compressed, @.num_elements)]

\* blosc2_schunk_append_chunk on a fresh super-chunk: the first chunk sets
\* the chunk size; a larger chunk, and a short chunk after a short one, are
\* refused and the super-chunk stays as it was
blosc2_schunk_append_chunk(schunk, chunk) ==
    IF schunk = <<>> THEN <<chunk>>
    ELSE IF chunk.nbytes > schunk[1].nbytes THEN schunk
    ELSE IF chunk.nbytes < schunk[1].nbytes /\ schunk[Len(schunk)].nbytes < schunk[1].nbytes
    THEN schunk
    ELSE Append(schunk, chunk)

RECURSIVE append_chunks(_, _)
append_chunks(schunk, chunks) ==
    IF chunks = <<>> THEN schunk
    ELSE append_chunks(blosc2_schunk_append_chunk(schunk, Head(chunks)), Tail(chunks))

\* lazy_schunk::to_schunk(): one buffer of chunk_size bytes of the lazy value
\* is compressed once; every lazy chunk appends that buffer, every other
\* chunk its own bytes; the results of the appends are not looked at
to_schunk(chunks, chunk_size, sz) ==
    LET lazy_compressed_data ==
            IF has_lazy_chunk(chunks)
            THEN compress(Rep(lazy_chunk_value(chunks), chunk_size \div sz), sz)
            ELSE NoChunk
    IN append_chunks(<<>>, [i \in 1..Len(chunks) |->
                               IF chunks[i].is_lazy THEN lazy_compressed_data
                               ELSE chunks[i].value])

\* a lazy super-chunk comes into the hands of a caller
LazyObject ==
    \E object \in LazySchunks :
        /\ lazy.pc = "idle"
        /\ lazy' = [pc |-> "object", sz |-> object.sz, m_ChunkSize |-> object.m_ChunkSize,
                    m_Chunks |-> object.m_Chunks, last |-> [op |-> "none"]]
        /\ UNCHANGED <<chanVars, iterVars, obs, pure, extVars>>

\* set_chunk at an index the super-chunk holds, with the compressed form of
\* a buffer as long as the slot or as long as a full chunk
LazySetChunk ==
    \E index \in 0..(MaxLazyChunks - 1) : \E len \in 1..MaxLazyElems : \E v \in Vals :
        /\ lazy.pc = "object"
        /\ index < Len(lazy.m_Chunks)
        /\ len \in {lazy_chunk_size(lazy.m_Chunks, index), lazy.m_ChunkSize \div lazy.sz}
        /\ LET data == [p \in 1..len |-> (v + p - 1) % (MaxVal + 1)]
           IN lazy' = [lazy EXCEPT
                         !.m_Chunks = set_chunk(@, compress(data, lazy.sz), index),
                         !.last = [op |-> "set_chunk", index |-> index,
                                   compressed |-> compress(data, lazy.sz)]]
        /\ UNCHANGED <<chanVars, iterVars, obs, pure, extVars>>

\* chunk(ctx, index)
LazyChunk ==
    \E index \in 0..(MaxLazyChunks - 1) :
        /\ lazy.pc = "object"
        /\ index < Len(lazy.m_Chunks)
        /\ lazy' = [lazy EXCEPT
                      !.last = [op |-> "chunk", index |-> index,
                                result |-> lazy_schunk_chunk(lazy.m_Chunks, index, lazy.sz)]]
        /\ UNCHANGED <<chanVars, iterVars, obs, pure, extVars>>

\* to_schunk()
LazyToSchunk ==
    /\ lazy.pc = "object"
    /\ lazy' = [lazy EXCEPT
                  !.last = [op |-> "to_schunk",
                            schunk |-> to_schunk(lazy.m_Chunks, lazy.m_ChunkSize, lazy.sz)]]
    /\ UNCHANGED <<chanVars, iterVars, obs, pure, extVars>>

InitLazy ==
    /\ IdleChannel
    /\ lazy = NoLazy
    /\ pure = NoPure
    /\ IdleExt

NextLazy == LazyObject \/ LazySetChunk \/ LazyChunk \/ LazyToSchunk

SpecLazy == InitLazy /\ [][NextLazy]_vars

(* ------------------------------ claims --------------------------------- *)
\* a completed pass: the iterator was dropped at end() after every position
\* was dereferenced exactly once
FullPassDone ==
    itState = "none" /\ obs.done /\ obs.canon /\ obs.endIndex = num_chunks

\* C1: after one full traversal that sets every element of every yielded
\* view to a constant k and drops the iterator, get_decompressed() is
\* width*height copies of k and the view a second traversal is given at
\* every position holds only k
C1_FillPass ==
    (FullPassDone /\ obs.kAll \in Vals) =>
        /\ get_decompressed = Rep(obs.kAll, m_Width * m_Height)
        /\ \A i \in 0..(num_chunks - 1) :
              decompress(m_Schunk[i + 1]) = Rep(obs.kAll, chunk_elems(i))

C1_Witness ==
    /\ FullPassDone /\ obs.kAll \in Vals
    /\ num_chunks >= 2
    /\ chunk_elems(num_chunks - 1) < chunk_elems(0)
    /\ obs.changed
    /\ get_decompressed # obs.orig

\* C2: a full traversal whose views are only read or rewritten with their
\* own values leaves get_decompressed() as it was before the traversal
C2_IdentityPass ==
    (FullPassDone /\ ~obs.changed) => get_decompressed = obs.orig

C2_Witness ==
    /\ FullPassDone /\ ~obs.changed /\ obs.mutated /\ obs.wroteBack
    /\ num_chunks >= 2
    /\ ~IsConst(obs.orig)

RECURSIVE SumElems(_)
SumElems(i) == IF i < 0 THEN 0 ELSE chunk_elems(i) + SumElems(i - 1)

\* C4: every chunk but the last holds chunk_size/sizeof(T) elements, the
\* last holds between 1 and that many, and the chunks together hold
\* width*height elements
C4_ChunkLayout ==
    /\ \A i \in 0..(num_chunks - 2) : chunk_elems(i) = schunk_chunksize \div typeSize
    /\ num_chunks > 0 =>
          /\ 0 < chunk_elems(num_chunks - 1)
          /\ chunk_elems(num_chunks - 1) <= schunk_chunksize \div typeSize
    /\ SumElems(num_chunks - 1) = m_Width * m_Height

\* C5: an iterator whose views were never written through performs no
\* write-back into the super-chunk
C5_ReadOnlyNeverWritesBack ==
    ~obs.mutated => ~obs.wroteBack

\* C6: the chunk index of a live iterator never exceeds num_chunks()
C6_IndexInRange ==
    itState = "live" => (0 <= m_ChunkIndex /\ m_ChunkIndex <= num_chunks)

CeilDiv(a, b) == (a \div b) + (IF a % b = 0 THEN 0 ELSE 1)

C8_Case ==
    /\ pure.op = "channel"
    /\ pure.sz = 4 /\ pure.width = 64 /\ pure.height = 16 /\ pure.req = 768

C9_Coordinates ==
    pure.op = "span" =>
        LET global == pure.chunk_index * (pure.chunk_size \div pure.sz) + pure.index
        IN /\ pure.x = global % pure.width
           /\ pure.y = global \div pure.width

\* C10: a call of full(width, height, v) yields a channel whose
\* get_decompressed() is width*height copies of v and whose compressed size,
\* no chunk being written, is num_chunks()*sizeof(T)
C10_FullChannel ==
    lazy.pc \in {"done", "bad_alloc"} =>
        /\ lazy.pc = "done"
        /\ lazy_to_uncompressed(lazy.m_Chunks) = Rep(lazy.value, lazy.width * lazy.height)
        /\ lazy_csize(lazy.m_Chunks, lazy.sz) = Len(lazy.m_Chunks) * lazy.sz

\* C11: an update of slot i is refused when i >= num_chunks() and when the
\* supplied element count differs from chunk_elems(i), and a refused update
\* leaves every slot as it was: a slot only ever changes to a chunk of the
\* element count it already held
C11_UpdateValidated ==
    [][/\ Len(m_Schunk') = Len(m_Schunk)
       /\ \A i \in 1..Len(m_Schunk) :
             m_Schunk'[i] # m_Schunk[i] => m_Schunk'[i].nbytes = m_Schunk[i].nbytes
       /\ (err' = "update_failed" \/ itState' = "terminated") => m_Schunk' = m_Schunk]_vars

C13_NameList ==
    /\ [](image.pc = "live" =>
            /\ Len(image.m_ChannelNames) \in {0, Len(image.m_Channels)}
            /\ image.last.op = "ctor" =>
                  Len(image.m_ChannelNames) =
                      IF image.last.given = Len(image.m_Channels) THEN image.last.given ELSE 0)
    /\ [][(image'.pc = "live" /\ image'.last.op = "channelnames") =>
             /\ image'.last.ok <=> image'.last.given = Len(image.m_Channels)
             /\ ~image'.last.ok => image'.m_ChannelNames = image.m_ChannelNames]_vars

C13_Witness ==
    /\ image.pc = "live"
    /\ image.last.op = "ctor" /\ image.last.given = 1
    /\ Len(image.m_Channels) = 2
    /\ image.m_ChannelNames = <<>>

C15_RemoveShifts ==
    /\ [][(image'.pc = "live" /\ image'.last.op \in {"remove_channel", "extract_channel"}
             /\ image'.last.ok) =>
             LET k == image'.last.k
                 n == Len(image.m_Channels)
             IN /\ k \in 0..(n - 1)
                /\ Len(image'.m_Channels) = n - 1
                /\ \A i \in 1..(n - 1) :
                      image'.m_Channels[i] = image.m_Channels[IF i <= k THEN i ELSE i + 1]
                /\ Len(image.m_ChannelNames) > 0 =>
                      /\ Len(image'.m_ChannelNames) = n - 1
                      /\ \A i \in 1..(n - 1) :
                            image'.m_ChannelNames[i] =
                                image.m_ChannelNames[IF i <= k THEN i ELSE i + 1]
                /\ image'.last.op = "extract_channel" =>
                      image'.last.channel = image.m_Channels[k + 1]
                /\ <<image'.m_Width, image'.m_Height>> = <<image.m_Width, image.m_Height>>]_vars
    /\ [](image.pc = "live" =>
            /\ Len(image.streak) <= Len(image.origin)
            /\ image.streak = SubSeq(image.origin, 1, Len(image.streak))
            /\ (image.origin # <<>> /\ Len(image.streak) = Len(image.origin)) =>
                  image.m_Channels = <<>> /\ image.m_ChannelNames = <<>>)

C15_Witness ==
    /\ image.pc = "live"
    /\ image.last.op = "extract_channel" /\ image.last.ok
    /\ Len(image.streak) = 2 /\ Len(image.origin) = 2
    /\ image.origin[1] # image.origin[2]

\* number of positions of s holding v
Count(s, v) == Cardinality({i \in 1..Len(s) : s[i] = v})

ReferenceChannel(ch) ==
    [i \in 1..(reader.width * reader.height) |->
        source_pixel((i - 1) \div reader.width, (i - 1) % reader.width, ch,
                     reader.width, reader.nsrc)]

\* C17: the bulk-read loop reads bands of scanlines_per_chunk scanlines in
\* ascending y, the last one clamped to the remaining height, stops when y
\* reaches height and appends one chunk of scanlines_read*width elements per
\* band to every channel of the run, so that each channel decompresses to
\* the planar deinterleave of a whole-image read
C17_BulkRead ==
    /\ [](reader.pc \in {"loop", "done"} =>
            LET nchannels == reader.chend - reader.chbegin
                bands == CeilDiv(reader.y, reader.scanlines_per_chunk)
            IN /\ reader.scanlines_per_chunk >= 1
               /\ reader.y <= reader.height
               /\ reader.y % reader.scanlines_per_chunk = 0 \/ reader.y = reader.height
               /\ \A c \in 1..nchannels :
                     /\ Len(reader.schunks[c]) = bands
                     /\ \A k \in 1..bands :
                           reader.schunks[c][k].nbytes =
                               Min(reader.scanlines_per_chunk,
                                   reader.height - (k - 1) * reader.scanlines_per_chunk)
                               * reader.width * reader.sz
                     /\ to_uncompressed(reader.schunks[c]) =
                            SubSeq(ReferenceChannel(reader.chbegin + c - 1), 1,
                                   reader.y * reader.width)
               /\ reader.pc = "done" => reader.y = reader.height)
    /\ [][(reader.pc = "loop" /\ reader'.pc = "loop") => reader'.y > reader.y]_vars

C17_Witness ==
    /\ reader.pc = "done"
    /\ reader.chend - reader.chbegin = 2
    /\ reader.width = 2
    /\ reader.scanlines_per_chunk = 2
    /\ reader.height = 3

\* C18: the size of a zip is the smallest size of its ranges; a traversal
\* from begin() to end() visits size() tuples, the k-th tuple referring to the
\* k-th element of every range; writes through a tuple land in the ranges
\* and no element at a position >= size() is modified
C18_ZipLockStep ==
    zip.pc \in {"loop", "done"} =>
        /\ \A I \in 1..Len(zip.data_) : zip.size <= Len(zip.data_[I])
        /\ \E I \in 1..Len(zip.data_) : zip.size = Len(zip.data_[I])
        /\ \A I \in 1..Len(zip.it) : zip.it[I] = zip.visited
        /\ zip.visited <= zip.size
        /\ zip.pc = "done" => zip.visited = zip.size
        /\ ~zip.ub
        /\ \A I \in 1..Len(zip.data_) : \A p \in 0..(Len(zip.data_[I]) - 1) :
              /\ <<I, p>> \in zip.written <=> zip.data_[I][p + 1] # 0
              /\ p >= zip.size => zip.data_[I][p + 1] = 0

C18_Witness ==
    /\ zip.pc = "done"
    /\ Len(zip.data_) = 2
    /\ Len(zip.data_[1]) = 3 /\ Len(zip.data_[2]) = 2
    /\ zip.visited = 2
    /\ zip.written = {<<1, 0>>, <<1, 1>>, <<2, 0>>, <<2, 1>>}

\* C19: the compression level stored on a channel built with a requested
\* level L, by a channel constructor, an image constructor or add_channel,
\* is min(L, 9)
C19_LevelClamped ==
    pure.op = "level" => pure.compression_level = Min(pure.requested, 9)

\* C20: while an iterator is live the channel neither reassigns nor destroys
\* the contexts the iterator borrowed, so every dereference, write-back and
\* drop uses contexts that still exist
C20_BorrowedContextsLive ==
    ctx.pc \in {"live", "crashed"} =>
        /\ ~ctx.used_freed
        /\ ctx.it.live =>
              {ctx.it.m_CompressionContext, ctx.it.m_DecompressionContext}
                  \subseteq ctx.allocated

\* C21: a write-back that fails inside operator*() is reported, leaves the
\* super-chunk as it was, and invalidates the iterator: every later
\* dereference or advance of that iterator fails as well
C21_FailedWriteBack ==
    [][/\ err' = "update_failed" => m_Schunk' = m_Schunk
       /\ (err = "update_failed" /\ itState = "live" /\ itState' = "live") =>
             (err' # "none" /\ m_Schunk' = m_Schunk)]_vars

\* C22: an iterator destroyed with a dirty buffer compresses the buffer and
\* writes it to the slot of the chunk the buffer was decompressed from, so
\* that what was written through the view of chunk j ends up in slot j
C22_DropWritesBack ==
    [][(itState = "live" /\ itState' # "live" /\ m_DecompressionBufferWasRefitted) =>
          /\ itState' = "none"
          /\ m_Schunk' = update_chunk(m_Schunk, obs.loaded,
                                      compress(m_DecompressionBuffer, typeSize))]_vars

\* C23: a traversal from begin() to end() dereferencing every position once
\* never fails, yields at position i a view that reports chunk index i and
\* holds chunk_elems(i) elements, and has visited 0, 1, ..., num_chunks()-1
\* in this order when it reaches end()
C23_AscendingTraversal ==
    /\ []((obs.canon /\ (itState = "live" \/ FullPassDone)) =>
            LET cursor == IF itState = "live" THEN m_ChunkIndex ELSE obs.endIndex
            IN /\ cursor <= num_chunks
               /\ Len(obs.visited) = cursor + obs.seen
               /\ \A k \in 1..Len(obs.visited) :
                     /\ obs.visited[k].chunk_index = k - 1
                     /\ obs.visited[k].size = chunk_elems(k - 1)
                     /\ k < num_chunks => obs.visited[k].size = schunk_chunksize \div typeSize
               /\ obs.seen = 1 =>
                     obs.loaded = m_ChunkIndex /\ Len(m_DecompressionBuffer) = chunk_elems(m_ChunkIndex)
               /\ FullPassDone => Len(obs.visited) = num_chunks)
    /\ [][(itState = "live" /\ obs.canon /\ obs.seen = 0 /\ m_ChunkIndex < num_chunks
             /\ itState' = "live" /\ m_ChunkIndex' = m_ChunkIndex
             /\ (obs'.seen # obs.seen \/ obs'.canon # obs.canon)) =>
             (obs'.canon /\ err' = "none")]_vars

C23_Witness ==
    /\ FullPassDone
    /\ num_chunks = 2
    /\ obs.visited[2].size < obs.visited[1].size
    /\ obs.changed
    /\ typeSize = 2

\* C28: whatever the order of dereferences, writes, advances and the drop, a
\* write-back replaces only the slot whose content was last decompressed
\* into the buffer; every other slot keeps its decompressed content and its
\* element count
C28_WriteBackOwnSlot ==
    [][/\ Len(m_Schunk') = Len(m_Schunk)
       /\ \A i \in 0..(Len(m_Schunk) - 1) :
             i # obs.loaded =>
                 /\ decompress(m_Schunk'[i + 1]) = decompress(m_Schunk[i + 1])
                 /\ m_Schunk'[i + 1].nbytes = m_Schunk[i + 1].nbytes]_vars

\* C26: the constructor of a lazy super-chunk stops after creating
\* floor(total_elems*sizeof(T)/chunk_size) fill slots of chunk_size/sizeof(T)
\* elements and one shorter fill slot iff there is a remainder, every slot
\* holding the given value
C26_ConstructorTerminates ==
    lazy.pc \in {"loop", "done", "bad_alloc"} =>
        /\ lazy.pc # "bad_alloc"
        /\ Len(lazy.m_Chunks) <=
               lazy.num_full_chunks + (IF lazy.remainder_bytes > 0 THEN 1 ELSE 0)
        /\ \A i \in 1..Len(lazy.m_Chunks) :
              /\ lazy.m_Chunks[i].is_lazy
              /\ lazy.m_Chunks[i].value = lazy.value
              /\ lazy.m_Chunks[i].num_elements =
                     IF i <= lazy.num_full_chunks THEN lazy.m_ChunkSize \div lazy.sz
                     ELSE lazy.remainder_bytes \div lazy.sz
        /\ lazy.pc = "done" =>
              Len(lazy.m_Chunks) =
                  lazy.num_full_chunks + (IF lazy.remainder_bytes > 0 THEN 1 ELSE 0)

\* C29: access to a chunk by index fails with an out-of-range error for
\* every index >= num_chunks(), also on a super-chunk without chunks, and
\* never for an index < num_chunks()
C29_IndexValidated ==
    pure.op = "index" => (pure.out_of_range <=> pure.index >= pure.num_chunks)

\* C30: the runs get_contiguous_channels returns are pairwise disjoint and
\* cover exactly the requested source indices, also when a name is requested
\* more than once; an empty request gives no runs; the image read holds each
\* requested channel exactly once
C30_DisjointRuns ==
    (pure.op = "read" /\ pure.ok) =>
        LET requested == {j \in 0..(Len(pure.source) - 1) :
                             \E i \in 1..Len(pure.requested) :
                                 pure.requested[i] = pure.source[j + 1]}
            run(r) == pure.ranges[r][1]..(pure.ranges[r][2] - 1)
        IN /\ \A r1, r2 \in 1..Len(pure.ranges) : r1 # r2 => run(r1) \cap run(r2) = {}
           /\ UNION {run(r) : r \in 1..Len(pure.ranges)} = requested
           /\ pure.requested = <<>> => pure.ranges = <<>>
           /\ \A j \in requested : Count(pure.channels, j) = 1
           /\ Len(pure.channels) = Cardinality(requested)

C27_SizeIsTotal ==
    lazy.pc \in {"loop", "done", "bad_alloc"} =>
        LET total_elems == lazy.width * lazy.height
        IN /\ lazy_size(lazy.m_Chunks) <= total_elems
           /\ lazy.pc # "loop" =>
                 /\ lazy.pc = "done"
                 /\ lazy_size(lazy.m_Chunks) = total_elems
                 /\ lazy_size(lazy.m_Chunks) * lazy.sz = total_elems * lazy.sz

====
